---- MODULE Spec2Model ----
(***************************************************************************)
(* Combinatorial test-case generator (src/src/generators):                 *)
(* field detection, enumeration of the field-state product up to a cap,   *)
(* categorisation, steps, expected result and case records.               *)
(*                                                                         *)
(* Python str values are TLA+ strings; a character is a string of length  *)
(* one.  A Python dict is the sequence of its <<key, value>> items in     *)
(* insertion order, with unique keys.                                      *)
(***************************************************************************)
EXTENDS Integers, Sequences, FiniteSets, TLC

(***************************************************************************)
(* Python str methods used by the source.                                  *)
(***************************************************************************)
Chr(s, i) == SubSeq(s, i, i)

Tail1(s) == SubSeq(s, 2, Len(s))

UpperLetters == "ABCDEFGHIJKLMNOPQRSTUVWXYZ"

LowerLetters == "abcdefghijklmnopqrstuvwxyz"

Whitespace == {" ", "\t"}

LowerChar(c) ==
    IF \E i \in 1..Len(UpperLetters) : Chr(UpperLetters, i) = c
    THEN Chr(LowerLetters, CHOOSE i \in 1..Len(UpperLetters) : Chr(UpperLetters, i) = c)
    ELSE c

UpperChar(c) ==
    IF \E i \in 1..Len(LowerLetters) : Chr(LowerLetters, i) = c
    THEN Chr(UpperLetters, CHOOSE i \in 1..Len(LowerLetters) : Chr(LowerLetters, i) = c)
    ELSE c

RECURSIVE Lower(_)
Lower(s) == IF s = "" THEN "" ELSE LowerChar(Chr(s, 1)) \o Lower(Tail1(s))

RECURSIVE Upper(_)
Upper(s) == IF s = "" THEN "" ELSE UpperChar(Chr(s, 1)) \o Upper(Tail1(s))

RECURSIVE LStrip(_)
LStrip(s) ==
    IF s # "" /\ Chr(s, 1) \in Whitespace THEN LStrip(Tail1(s)) ELSE s

RECURSIVE RStrip(_)
RStrip(s) ==
    IF s # "" /\ Chr(s, Len(s)) \in Whitespace
    THEN RStrip(SubSeq(s, 1, Len(s) - 1))
    ELSE s

Strip(s) == RStrip(LStrip(s))

\* s.replace(old, new) for a non-empty old: leftmost, non-overlapping.
RECURSIVE Replace(_, _, _)
Replace(s, old, new) ==
    IF Len(s) < Len(old) THEN s
    ELSE IF SubSeq(s, 1, Len(old)) = old
         THEN new \o Replace(SubSeq(s, Len(old) + 1, Len(s)), old, new)
         ELSE Chr(s, 1) \o Replace(Tail1(s), old, new)

\* sub in s
Contains(sub, s) ==
    \E i \in 0..(Len(s) - Len(sub)) : SubSeq(s, i + 1, i + Len(sub)) = sub

StartsWith(s, p) == Len(p) <= Len(s) /\ SubSeq(s, 1, Len(p)) = p

\* s[:n]
Take(s, n) == SubSeq(s, 1, IF n < Len(s) THEN n ELSE Len(s))

\* s.capitalize()
Capitalize(s) == IF s = "" THEN "" ELSE UpperChar(Chr(s, 1)) \o Lower(Tail1(s))

DecDigits == "0123456789"

\* str(n) for n >= 0
RECURSIVE Str(_)
Str(n) ==
    IF n < 10 THEN Chr(DecDigits, n + 1)
    ELSE Str(n \div 10) \o Chr(DecDigits, (n % 10) + 1)

RECURSIVE ZeroPad(_, _)
ZeroPad(s, width) == IF Len(s) >= width THEN s ELSE ZeroPad("0" \o s, width)

\* f"{n:04d}" for n >= 0
Format04d(n) == ZeroPad(Str(n), 4)

\* x in list
InList(x, list) == \E i \in 1..Len(list) : list[i] = x

(***************************************************************************)
(* field_detector.py                                                       *)
(***************************************************************************)
Fields(t, b) == [text |-> t, binary |-> b]

\* mutant: the login profile without its third text field
login_fields_no_otp ==
    Fields(<<"username", "password">>, <<"remember_me", "show_password">>)

login_fields ==
    Fields(<<"username", "password", "otp">>, <<"remember_me", "show_password">>)

\* Python: a or b or c or (d and e)
ecu_matches(s) ==
    Contains("ecu", s) \/ Contains("firmware", s) \/ Contains("diagnostic", s)
        \/ (Contains("can", s) /\ ~Contains("door", s))

\* mutant: "door" guards only the last keyword
vehicle_integration_matches_lin_guarded(s) ==
    Contains("vehicle integration", s) \/ Contains("can", s)
        \/ (Contains("lin", s) /\ ~Contains("door", s))

\* Python: a or ((b or c) and d)
vehicle_integration_matches(s) ==
    Contains("vehicle integration", s)
        \/ ((Contains("can", s) \/ Contains("lin", s)) /\ ~Contains("door", s))

detect_fields_for_scenario(scenario) ==
    LET s  == Lower(Strip(scenario))
        sh == Replace(s, "-", " ")
    IN
    IF Contains("login", s) \/ Contains("sign in", sh) \/ Contains("authenticate", s)
    THEN login_fields
    ELSE IF Contains("logout", s) \/ Contains("sign out", sh)
    THEN Fields(<<"session_id">>, <<"is_network_connected">>)
    ELSE IF Contains("checkout", s) \/ Contains("payment", s) \/ Contains("purchase", s)
    THEN Fields(<<"shipping_address", "zipcode", "card_number", "cvv">>,
                <<"save_address", "accept_terms">>)
    ELSE IF Contains("registration", s) \/ Contains("sign up", sh) \/ Contains("signup", s)
    THEN Fields(<<"full_name", "email", "password", "confirm_password">>,
                <<"accept_terms", "subscribe_newsletter">>)
    ELSE IF Contains("reset password", s) \/ Contains("forgot password", s)
            \/ Contains("password_reset", s)
    THEN Fields(<<"email", "otp", "new_password">>, <<"remember_device">>)
    ELSE IF Contains("add to cart", s) \/ Contains("add_to_cart", sh)
    THEN Fields(<<"product_id", "quantity">>, <<"is_logged_in">>)
    ELSE IF Contains("api", s) \/ Contains("endpoint", s) \/ Contains("request", s)
    THEN Fields(<<"payload", "auth_token">>, <<"is_authenticated">>)
    ELSE IF ecu_matches(s)
    THEN Fields(<<"request_id", "checksum", "ecu_id">>,
                <<"is_vehicle_running", "is_ignition_on">>)
    ELSE IF Contains("hmi", s) \/ Contains("ui", s) \/ Contains("user interface", s)
    THEN Fields(<<"screen_id", "language", "theme", "brightness_level">>,
                <<"is_touch_enabled", "is_night_mode">>)
    ELSE IF Contains("audio", s)
            /\ (Contains("routing", s) \/ Contains("source", s) \/ Contains("output", s))
    THEN Fields(<<"audio_source", "output_target", "volume_level", "balance_setting">>,
                <<"is_nav_prompt_active", "is_phone_call_active">>)
    ELSE IF Contains("bluetooth", s) \/ Contains("bt ", s) \/ StartsWith(s, "bt ")
    THEN Fields(<<"phone_bucket", "bt_profile", "reconnect_trigger", "power_state",
                  "hu_state">>,
                <<"is_device_paired_before", "is_auto_reconnect_enabled">>)
    ELSE IF Contains("wifi", s) \/ Contains("wi-fi", s) \/ Contains("hotspot", s)
    THEN Fields(<<"ssid", "wifi_password", "signal_strength", "client_profile">>,
                <<"is_hotspot_enabled", "is_client_mode_enabled">>)
    ELSE IF Contains("navigation", s) \/ Contains("nav ", s) \/ Contains("gnss", s)
            \/ Contains("route", s)
    THEN Fields(<<"start_location", "destination", "route_type", "traffic_condition">>,
                <<"is_gps_locked", "is_online_services_available">>)
    ELSE IF vehicle_integration_matches(s)
    THEN Fields(<<"signal_name", "signal_value", "bus_load">>,
                <<"is_ignition_on", "is_vehicle_moving">>)
    ELSE IF Contains("ota", s) \/ Contains("over-the-air", s)
            \/ Contains("software update", s)
    THEN Fields(<<"package_version", "package_size", "current_sw_version">>,
                <<"is_wifi_connected", "is_battery_ok">>)
    ELSE IF Contains("performance", s) \/ Contains("latency", s)
            \/ Contains("response time", s)
    THEN Fields(<<"operation_type", "data_volume", "concurrent_sessions">>,
                <<"is_logging_enabled", "is_debug_mode">>)
    ELSE IF Contains("security", s) \/ Contains("access control", s)
            \/ Contains("authorization", s)
    THEN Fields(<<"user_role", "auth_method", "resource_name">>,
                <<"is_mfa_enabled", "is_account_locked">>)
    ELSE IF Contains("robustness", s) \/ Contains("power cycle", s)
            \/ Contains("fault", s) \/ Contains("stress", s)
    THEN Fields(<<"fault_type", "recovery_attempts", "test_duration">>,
                <<"is_network_available", "is_backup_path_available">>)
    ELSE IF Contains("door warning", s) \/ (Contains("door", s) /\ Contains("warning", s))
    THEN Fields(<<"door_signal", "vehicle_speed", "voltage_profile">>,
                <<"is_ignition_on", "cluster_active">>)
    ELSE Fields(<<>>, <<>>)

(***************************************************************************)
(* combinatorial_generator.py: constants and pure helpers                  *)
(***************************************************************************)
TEXT_STATES == <<"Valid", "Invalid", "Empty">>

BINARY_STATES == <<"Checked", "Unchecked">>

RECURSIVE Pow(_, _)
Pow(base, n) == IF n = 0 THEN 1 ELSE base * Pow(base, n - 1)

\* mutant: the state counts multiplied by the field counts instead of raised to them
compute_total_combinations_linear(num_text_fields, num_binary_fields) ==
    (3 * num_text_fields) * (2 * num_binary_fields)

compute_total_combinations(num_text_fields, num_binary_fields) ==
    Pow(3, num_text_fields) * Pow(2, num_binary_fields)

\* Python dict: items in insertion order; assigning an existing key keeps its place.
DictKeys(d) == [i \in 1..Len(d) |-> d[i][1]]

DictValues(d) == [i \in 1..Len(d) |-> d[i][2]]

DictSet(d, k, v) ==
    IF \E i \in 1..Len(d) : d[i][1] = k
    THEN [i \in 1..Len(d) |-> IF d[i][1] = k THEN <<k, v>> ELSE d[i]]
    ELSE Append(d, <<k, v>>)

\* for field_name, state in zip(names, states): d[field_name] = state
RECURSIVE DictSetZip(_, _, _, _)
DictSetZip(d, names, states, i) ==
    IF i > Len(names) \/ i > Len(states) THEN d
    ELSE DictSetZip(DictSet(d, names[i], states[i]), names, states, i + 1)

\* [x + (y,) for x in result for y in pool], taken from position i of result
RECURSIVE ProductExtend(_, _, _)
ProductExtend(result, pool, i) ==
    IF i > Len(result) THEN <<>>
    ELSE [j \in 1..Len(pool) |-> Append(result[i], pool[j])]
         \o ProductExtend(result, pool, i + 1)

\* list(itertools.product(pool, repeat=n))
RECURSIVE Product(_, _)
Product(pool, n) ==
    IF n = 0 THEN << <<>> >>
    ELSE ProductExtend(Product(pool, n - 1), pool, 1)

\* mutant: every element counted, whatever its value
Count_length(list, x) == Len(list)

\* list.count(x)
Count(list, x) == Cardinality({i \in 1..Len(list) : list[i] = x})

\* mutant: appended without the test for presence
AppendIfAbsent_always(list, x) == Append(list, x)

AppendIfAbsent(list, x) == IF InList(x, list) THEN list ELSE Append(list, x)

\* mutant: the security rule without its test of the state
RECURSIVE SensitiveLoop_any_state(_, _, _)
SensitiveLoop_any_state(cats, combination, i) ==
    IF i > Len(combination) THEN cats
    ELSE SensitiveLoop_any_state(
             IF InList(Lower(combination[i][1]), <<"password", "otp", "token">>)
             THEN AppendIfAbsent(cats, "Security")
             ELSE cats,
             combination, i + 1)

\* the loop over combination.items() of the security rule
RECURSIVE SensitiveLoop(_, _, _)
SensitiveLoop(cats, combination, i) ==
    IF i > Len(combination) THEN cats
    ELSE LET lf    == Lower(combination[i][1])
             state == combination[i][2]
         IN SensitiveLoop(
                IF InList(lf, <<"password", "otp", "token">>)
                   /\ InList(state, <<"Invalid", "Empty">>)
                THEN AppendIfAbsent(cats, "Security")
                ELSE cats,
                combination, i + 1)

\* mutant: no default category
DefaultCategory_none(cats) == cats

\* if not cats: cats.append("Positive")
DefaultCategory(cats) == IF cats = <<>> THEN Append(cats, "Positive") ELSE cats

categorize_combination(scenario, combination) ==
    LET s == Lower(Strip(scenario))
        text_states == SelectSeq(DictValues(combination),
                                 LAMBDA state : InList(state, TEXT_STATES))
        has_invalid == \E i \in 1..Len(text_states) : text_states[i] = "Invalid"
        has_empty == \E i \in 1..Len(text_states) : text_states[i] = "Empty"
        all_valid_text == /\ text_states # <<>>
                          /\ \A i \in 1..Len(text_states) : text_states[i] = "Valid"
        cats1 == IF all_valid_text THEN <<"Positive">> ELSE <<>>
        cats2 == IF has_empty
                 THEN cats1 \o <<"Negative", "Validation", "Edge">>
                 ELSE cats1
        cats3 == IF has_invalid THEN AppendIfAbsent(cats2, "Negative") ELSE cats2
        cats4 == IF Contains("login", s) \/ Contains("auth", s)
                    \/ Contains("sign in", Replace(s, "-", " "))
                 THEN LET c == SensitiveLoop(cats3, combination, 1)
                      IN IF Count(text_states, "Invalid") >= 2
                         THEN AppendIfAbsent(c, "Security")
                         ELSE c
                 ELSE cats3
    IN DefaultCategory(cats4)

OpeningSteps(platform) ==
    IF platform = "web" THEN
        <<"Launch a supported web browser (e.g. latest Chrome or Firefox).",
          "Navigate to the application's URL and ensure the page loads without errors.">>
    ELSE IF platform = "mobile" THEN
        <<"Launch the mobile application on a supported device/emulator.",
          "Ensure the app loads to the main screen without crashes.">>
    ELSE IF platform = "api" THEN
        <<"Prepare an API client (e.g. Postman, curl, or automated test).",
          "Ensure the target environment and endpoint are reachable.">>
    ELSE IF platform = "desktop" THEN
        <<"Launch the desktop application on a supported operating system.",
          "Ensure the application starts successfully without error dialogs.">>
    ELSE IF platform = "automotive" THEN
        <<"Ensure the test vehicle or HIL/SIL environment is powered on and in a safe state.",
          "Connect diagnostic/tools to the in-vehicle network or test bench as required.">>
    ELSE
        <<"Open the system under test using the appropriate client or interface.",
          "Navigate to the relevant module for this scenario.">>

\* the steps one item of the combination adds (none for an unknown state)
FieldStep(scenario, field, state) ==
    IF state = "Valid" THEN
        <<"Enter a valid value into '" \o field
          \o "' (e.g. a correctly formatted and allowed " \o Lower(field) \o ").">>
    ELSE IF state = "Invalid" THEN
        <<"Enter an invalid or not allowed value into '" \o field \o "' "
          \o "(e.g. wrong format, out-of-range value, or disallowed characters).">>
    ELSE IF state = "Empty" THEN
        <<"Leave the '" \o field
          \o "' field empty or do not provide this parameter in the request.">>
    ELSE IF state = "Checked" THEN
        <<"Ensure the '" \o field
          \o "' option is enabled/checked before executing the '" \o scenario
          \o "' operation.">>
    ELSE IF state = "Unchecked" THEN
        <<"Ensure the '" \o field
          \o "' option is disabled/unchecked before executing the '" \o scenario
          \o "' operation.">>
    ELSE <<>>

\* mutant: the steps of the fields in the reverse of the insertion order
RECURSIVE FieldSteps_reversed(_, _, _)
FieldSteps_reversed(scenario, combination, i) ==
    IF i > Len(combination) THEN <<>>
    ELSE FieldSteps_reversed(scenario, combination, i + 1)
         \o FieldStep(scenario, combination[i][1], combination[i][2])

RECURSIVE FieldSteps(_, _, _)
FieldSteps(scenario, combination, i) ==
    IF i > Len(combination) THEN <<>>
    ELSE FieldStep(scenario, combination[i][1], combination[i][2])
         \o FieldSteps(scenario, combination, i + 1)

build_steps_for_combination(r, combination) ==
    LET scenario == Strip(r.scenario)
    IN OpeningSteps(r.platform)
       \o <<"Navigate to the part of the system where the '" \o scenario
            \o "' operation is performed (screen, API endpoint, or flow).">>
       \o FieldSteps(scenario, combination, 1)
       \o <<"Trigger the '" \o scenario
            \o "' operation (e.g. click the corresponding button, submit the form, or send the API request).",
            "Observe the system behaviour in the UI, logs, and/or API response, including status codes and returned data.">>

SuccessNarrative(s) ==
    "The system successfully completes the '" \o s
    \o "' operation. The expected UI changes, data updates, "
    \o "and/or API responses are produced without errors. No validation or error messages are displayed, "
    \o "and the system state is consistent and correct."

ValidationNarrative ==
    "The system does not proceed with the main operation. Clear and descriptive validation messages are "
    \o "displayed or returned for all fields that are empty or invalid. No partial data is stored, no corrupted "
    \o "state is created, and any previously valid data remains unchanged."

SecurityNarrative ==
    "The system protects against unauthorized or suspicious usage of the scenario. Login or privileged "
    \o "operations are rejected, error messages remain generic (no sensitive information leakage), and no "
    \o "user session or privileged access is granted. Any relevant security/audit logs are created as per policy."

NegativeNarrative ==
    "The system rejects the operation for this combination of inputs. Appropriate error or validation messages "
    \o "are displayed or returned, and the system remains stable without crashes or unhandled exceptions."

FallbackNarrative(s) ==
    "The system handles the '" \o s
    \o "' operation in accordance with the specification for this input combination, "
    \o "without compromising stability, data integrity, or security."

\* mutant: the security test ahead of the validation test
build_expected_result_security_first(scenario, categories, combination) ==
    LET s == Strip(scenario)
    IN IF InList("Positive", categories) /\ ~InList("Negative", categories)
          /\ ~InList("Validation", categories)
       THEN SuccessNarrative(s)
       ELSE IF InList("Security", categories)
       THEN SecurityNarrative
       ELSE IF InList("Validation", categories) \/ InList("Edge", categories)
       THEN ValidationNarrative
       ELSE IF InList("Negative", categories)
       THEN NegativeNarrative
       ELSE FallbackNarrative(s)

\* mutant: without the test for the generic negative case
build_expected_result_no_negative(scenario, categories, combination) ==
    LET s == Strip(scenario)
    IN IF InList("Positive", categories) /\ ~InList("Negative", categories)
          /\ ~InList("Validation", categories)
       THEN SuccessNarrative(s)
       ELSE IF InList("Validation", categories) \/ InList("Edge", categories)
       THEN ValidationNarrative
       ELSE IF InList("Security", categories)
       THEN SecurityNarrative
       ELSE FallbackNarrative(s)

build_expected_result(scenario, categories, combination) ==
    LET s == Strip(scenario)
    IN IF InList("Positive", categories) /\ ~InList("Negative", categories)
          /\ ~InList("Validation", categories)
       THEN SuccessNarrative(s)
       ELSE IF InList("Validation", categories) \/ InList("Edge", categories)
       THEN ValidationNarrative
       ELSE IF InList("Security", categories)
       THEN SecurityNarrative
       ELSE IF InList("Negative", categories)
       THEN NegativeNarrative
       ELSE FallbackNarrative(s)

\* sep.join(parts)
RECURSIVE Join(_, _)
Join(sep, parts) ==
    IF parts = <<>> THEN ""
    ELSE IF Len(parts) = 1 THEN parts[1]
    ELSE parts[1] \o sep \o Join(sep, Tail(parts))

\* The separator of the title line: the source holds a non-ASCII dash here.
TitleDash == "--"

build_markdown_for_case(case_id, scenario, categories, combination, steps, expected_result) ==
    LET cat_str == IF categories # <<>> THEN Join(", ", categories) ELSE "Unclassified"
        lines ==
            <<"### " \o case_id \o " " \o TitleDash \o " " \o Capitalize(scenario)
              \o " Combination Test",
              "**Category:** " \o cat_str,
              "**Combination:**">>
            \o [i \in 1..Len(combination) |->
                   "- **" \o combination[i][1] \o "**: " \o combination[i][2]]
            \o <<"", "**Steps:**">>
            \o [idx \in 1..Len(steps) |-> Str(idx) \o ". " \o steps[idx]]
            \o <<"", "**Expected Result:**", "- " \o expected_result, "">>
    IN Join("\n", lines)

(***************************************************************************)
(* models.py: CombinationRequest and its validation                        *)
(***************************************************************************)
\* Optional[List[str]]
None == [some |-> FALSE, list |-> <<>>]

Some(l) == [some |-> TRUE, list |-> l]

\* truth value of an Optional[List[str]]: neither None nor empty
Truthy(o) == o.some /\ o.list # <<>>

PLATFORMS == {"web", "mobile", "api", "desktop", "automotive", "generic"}

MinScenarioLen == 3

MaxCasesGe == 1

MaxCasesLe == 1000

ValidRequest(r) ==
    /\ Len(r.scenario) >= MinScenarioLen
    /\ r.platform \in PLATFORMS
    /\ r.max_cases >= MaxCasesGe
    /\ r.max_cases <= MaxCasesLe

(***************************************************************************)
(* Bounds of the model and the inputs it draws.                            *)
(***************************************************************************)
MaxCap == 3

MaxTextFields == 2

MaxBinaryFields == 1

MaxAssignment == 2

SeqUpTo(S, n) == UNION {[1..k -> S] : k \in 0..n}

\* scenarios of the requests: the last one is too short to pass validation
Scenarios ==
    {"login", "  Add to cart ", "xyzzy operation", "checkout", "   ",
     "auth\tflow", "ab"}

\* scenarios the pure functions are applied to
FnScenarios ==
    {"login", "  Add to cart ", "xyzzy operation", "checkout", "   ",
     "Sign-In", "auth\tflow", "door warning can"}

RequestPlatforms == {"web", "generic", "tv"}

TextFieldNames == {"x", "Password"}

BinaryFieldNames == {"x"}

MaxCasesChoices == (0..MaxCap) \cup {100}

Requests ==
    [scenario : Scenarios,
     platform : RequestPlatforms,
     text_fields : {None} \cup {Some(l) : l \in SeqUpTo(TextFieldNames, MaxTextFields)},
     binary_fields : {None} \cup {Some(l) : l \in SeqUpTo(BinaryFieldNames, MaxBinaryFields)},
     max_cases : MaxCasesChoices]

(***************************************************************************)
(* State: the request and the locals of generate_combinations.             *)
(***************************************************************************)
VARIABLES
    pc,                     \* position in generate_combinations
    req,                    \* the CombinationRequest
    text_fields,            \* resolved text fields
    binary_fields,          \* resolved binary fields
    total_combinations,
    text_state_products,
    binary_state_products,
    scenario,               \* req.scenario.strip()
    prefix,
    counter,
    ti,                     \* position of the outer for loop
    bi,                     \* position of the inner for loop
    cases,
    response,
    fn_in,                  \* arguments of a pure function applied on its own
    fn_out                  \* what it returned

vars == <<pc, req, text_fields, binary_fields, total_combinations,
          text_state_products, binary_state_products, scenario, prefix,
          counter, ti, bi, cases, response, fn_in, fn_out>>

fnVars == <<fn_in, fn_out>>

NoRequest ==
    [scenario |-> "", platform |-> "", text_fields |-> None,
     binary_fields |-> None, max_cases |-> 0]

NoResponse == [status |-> 0]

Init ==
    /\ pc = "idle"
    /\ req = NoRequest
    /\ text_fields = <<>>
    /\ binary_fields = <<>>
    /\ total_combinations = 0
    /\ text_state_products = <<>>
    /\ binary_state_products = <<>>
    /\ scenario = ""
    /\ prefix = ""
    /\ counter = 0
    /\ ti = 0
    /\ bi = 0
    /\ cases = <<>>
    /\ response = NoResponse
    /\ fn_in = [scenario |-> "", combination |-> <<>>]
    /\ fn_out = [categories |-> <<>>, expected_result |-> ""]

(***************************************************************************)
(* generate_combinations, step by step                                     *)
(***************************************************************************)
\* mutant: no default field
default_text_fields_none == <<>>

default_text_fields == <<"input">>

\* mutant: keyword detection ahead of the lists of the request
ResolveFields_detect_first(r) ==
    LET given == Fields(IF Truthy(r.text_fields) THEN r.text_fields.list ELSE <<>>,
                        IF Truthy(r.binary_fields) THEN r.binary_fields.list ELSE <<>>)
        detected == detect_fields_for_scenario(r.scenario)
    IN IF detected.text # <<>> \/ detected.binary # <<>> THEN detected
       ELSE IF given.text = <<>> /\ given.binary = <<>>
       THEN Fields(default_text_fields, <<>>)
       ELSE given

\* 1) Determine fields
ResolveFields(r) ==
    LET given == Fields(IF Truthy(r.text_fields) THEN r.text_fields.list ELSE <<>>,
                        IF Truthy(r.binary_fields) THEN r.binary_fields.list ELSE <<>>)
        detected == IF given.text = <<>> /\ given.binary = <<>>
                    THEN detect_fields_for_scenario(r.scenario)
                    ELSE given
    IN IF detected.text = <<>> /\ detected.binary = <<>>
       THEN Fields(default_text_fields, <<>>)
       ELSE detected

\* mutant: the spaces removed instead of replaced
make_prefix_spaces_removed(s) ==
    LET p == Take(Replace(Upper(s), " ", ""), 8)
    IN IF p = "" THEN "SCEN" ELSE p

make_prefix(s) ==
    LET p == Take(Replace(Upper(s), " ", "_"), 8)
    IN IF p = "" THEN "SCEN" ELSE p

\* mutant: the sequence number without padding
case_id_unpadded(p, n) == p \o "-" \o Str(n)

case_id(p, n) == p \o "-" \o Format04d(n)

\* mutant: the cap test off by one
CapExceeded_ge(n, max_cases) == n >= max_cases

\* counter > req.max_cases
CapExceeded(n, max_cases) == n > max_cases

\* the request fails validation before it reaches the generator
Reject ==
    /\ pc = "idle"
    /\ \E r \in Requests : ~ValidRequest(r)
    /\ pc' = "rejected"
    /\ response' = [status |-> 422]
    /\ UNCHANGED <<req, text_fields, binary_fields, total_combinations,
                   text_state_products, binary_state_products, scenario,
                   prefix, counter, ti, bi, cases, fnVars>>

\* entry of generate_combinations up to the first iteration of the loops
Receive ==
    /\ pc = "idle"
    /\ \E r \in Requests :
        /\ ValidRequest(r)
        /\ LET f == ResolveFields(r)
               num_text == Len(f.text)
               num_binary == Len(f.binary)
           IN /\ req' = r
              /\ text_fields' = f.text
              /\ binary_fields' = f.binary
              /\ total_combinations' =
                     compute_total_combinations(num_text, num_binary)
              /\ text_state_products' =
                     IF num_text > 0 THEN Product(TEXT_STATES, num_text)
                     ELSE << <<>> >>
              /\ binary_state_products' =
                     IF num_binary > 0 THEN Product(BINARY_STATES, num_binary)
                     ELSE << <<>> >>
              /\ scenario' = Strip(r.scenario)
              /\ prefix' = make_prefix(Strip(r.scenario))
    /\ cases' = <<>>
    /\ counter' = 0
    /\ ti' = 1
    /\ bi' = 1
    /\ pc' = IF text_state_products' = <<>> THEN "finish" ELSE "inner"
    /\ UNCHANGED <<response, fnVars>>

\* mutant: the sequence number of the id counted down from the cap
BuildCase_numbered_from_cap(n) ==
    LET text_states == text_state_products[ti]
        binary_states == binary_state_products[bi]
        combination ==
            DictSetZip(DictSetZip(<<>>, text_fields, text_states, 1),
                       binary_fields, binary_states, 1)
        categories == categorize_combination(scenario, combination)
        steps == build_steps_for_combination(req, combination)
        expected_result == build_expected_result(scenario, categories, combination)
        id == case_id(prefix, req.max_cases - n + 1)
    IN [id |-> id,
        category |-> categories,
        combination |-> combination,
        steps |-> steps,
        expected_result |-> expected_result,
        markdown |-> build_markdown_for_case(id, scenario, categories, combination,
                                             steps, expected_result)]

BuildCase(n) ==
    LET text_states == text_state_products[ti]
        binary_states == binary_state_products[bi]
        combination ==
            DictSetZip(DictSetZip(<<>>, text_fields, text_states, 1),
                       binary_fields, binary_states, 1)
        categories == categorize_combination(scenario, combination)
        steps == build_steps_for_combination(req, combination)
        expected_result == build_expected_result(scenario, categories, combination)
        id == case_id(prefix, n)
    IN [id |-> id,
        category |-> categories,
        combination |-> combination,
        steps |-> steps,
        expected_result |-> expected_result,
        markdown |-> build_markdown_for_case(id, scenario, categories, combination,
                                             steps, expected_result)]

\* one iteration of the inner loop: count, break on the cap, else append a case
InnerIteration ==
    /\ pc = "inner"
    /\ bi <= Len(binary_state_products)
    /\ counter' = counter + 1
    /\ IF CapExceeded(counter + 1, req.max_cases)
       THEN /\ pc' = "after_inner"
            /\ UNCHANGED <<cases, bi>>
       ELSE /\ cases' = Append(cases, BuildCase(counter + 1))
            /\ bi' = bi + 1
            /\ pc' = "inner"
    /\ UNCHANGED <<req, text_fields, binary_fields, total_combinations,
                   text_state_products, binary_state_products, scenario,
                   prefix, ti, response, fnVars>>

\* the inner loop runs out of binary combinations
InnerExhausted ==
    /\ pc = "inner"
    /\ bi > Len(binary_state_products)
    /\ pc' = "after_inner"
    /\ UNCHANGED <<req, text_fields, binary_fields, total_combinations,
                   text_state_products, binary_state_products, scenario,
                   prefix, counter, ti, bi, cases, response, fnVars>>

\* after the inner loop: break on the cap, else the next text combination
OuterCheck ==
    /\ pc = "after_inner"
    /\ IF CapExceeded(counter, req.max_cases)
       THEN /\ pc' = "finish"
            /\ UNCHANGED <<ti, bi>>
       ELSE /\ ti' = ti + 1
            /\ bi' = 1
            /\ pc' = IF ti + 1 > Len(text_state_products) THEN "finish" ELSE "inner"
    /\ UNCHANGED <<req, text_fields, binary_fields, total_combinations,
                   text_state_products, binary_state_products, scenario,
                   prefix, counter, cases, response, fnVars>>

\* the response
Finish ==
    /\ pc = "finish"
    /\ LET returned_count == Len(cases)
       IN response' =
              [status |-> 200,
               scenario |-> scenario,
               platform |-> req.platform,
               text_fields |-> text_fields,
               binary_fields |-> binary_fields,
               total_combinations |-> total_combinations,
               returned_count |-> returned_count,
               page |-> 1,
               page_size |-> returned_count,
               pages_total |-> 1,
               cases |-> cases,
               combined_markdown |->
                   Join("\n", [i \in 1..Len(cases) |-> cases[i].markdown])]
    /\ pc' = "done"
    /\ UNCHANGED <<req, text_fields, binary_fields, total_combinations,
                   text_state_products, binary_state_products, scenario,
                   prefix, counter, ti, bi, cases, fnVars>>

(***************************************************************************)
(* The pure functions applied on their own to a scenario and an assignment *)
(***************************************************************************)
ALL_STATES == {"Valid", "Invalid", "Empty", "Checked", "Unchecked"}

AssignmentNames == {"x", "Password", "b"}

\* dicts of at most MaxAssignment items
Assignments ==
    {d \in SeqUpTo(AssignmentNames \X ALL_STATES, MaxAssignment) :
        \A i, j \in 1..Len(d) : d[i][1] = d[j][1] => i = j}

ApplyCategorize ==
    /\ pc = "idle"
    /\ \E s \in FnScenarios, d \in Assignments :
        LET categories == categorize_combination(s, d)
        IN /\ fn_in' = [scenario |-> s, combination |-> d]
           /\ fn_out' = [categories |-> categories,
                         expected_result |-> build_expected_result(s, categories, d)]
    /\ pc' = "applied"
    /\ UNCHANGED <<req, text_fields, binary_fields, total_combinations,
                   text_state_products, binary_state_products, scenario,
                   prefix, counter, ti, bi, cases, response>>

\* platform values a caller of _build_steps_for_combination can pass
StepPlatforms == PLATFORMS \cup {"tv"}

StepScenarios == {"login", "  Add to cart "}

\* _build_steps_for_combination applied on its own
ApplySteps ==
    /\ pc = "idle"
    /\ \E s \in StepScenarios, p \in StepPlatforms, d \in Assignments :
        /\ fn_in' = [scenario |-> s, platform |-> p, combination |-> d]
        /\ fn_out' = [steps |-> build_steps_for_combination(
                                    [scenario |-> s, platform |-> p], d)]
    /\ pc' = "steps_built"
    /\ UNCHANGED <<req, text_fields, binary_fields, total_combinations,
                   text_state_products, binary_state_products, scenario,
                   prefix, counter, ti, bi, cases, response>>

\* scenarios detect_fields_for_scenario is applied to
DetectScenarios ==
    {"door warning can", " Door Warning LIN", "door can", "door lin",
     "door warning", "door and warning lamp can", "can door diagnostic",
     "door can vehicle integration", "door warning can ui", "can bus",
     "lin bus", "ecu door", "xyzzy operation"}

\* detect_fields_for_scenario applied on its own
ApplyDetect ==
    /\ pc = "idle"
    /\ \E s \in DetectScenarios :
        /\ fn_in' = [scenario |-> s]
        /\ fn_out' = [fields |-> detect_fields_for_scenario(s)]
    /\ pc' = "detected"
    /\ UNCHANGED <<req, text_fields, binary_fields, total_combinations,
                   text_state_products, binary_state_products, scenario,
                   prefix, counter, ti, bi, cases, response>>

Next ==
    \/ ApplyCategorize
    \/ ApplySteps
    \/ ApplyDetect
    \/ Reject
    \/ Receive
    \/ InnerIteration
    \/ InnerExhausted
    \/ OuterCheck
    \/ Finish

Spec == Init /\ [][Next]_vars

(***************************************************************************)
(* Properties                                                              *)
(***************************************************************************)
Min(a, b) == IF a < b THEN a ELSE b

SetOf(list) == {list[i] : i \in 1..Len(list)}

\* d[k] for a key of the dict
Lookup(d, k) == d[CHOOSE i \in 1..Len(d) : d[i][1] = k][2]

\* the list without its repeated elements, first occurrences kept
RECURSIVE Dedup(_)
Dedup(list) ==
    IF list = <<>> THEN <<>>
    ELSE LET front == Dedup(SubSeq(list, 1, Len(list) - 1))
             last == list[Len(list)]
         IN IF InList(last, front) THEN front ELSE Append(front, last)

TextStateSet == {"Valid", "Invalid", "Empty"}

BinaryStateSet == {"Checked", "Unchecked"}

\* the request named no fields: both lists absent or empty
NoExplicitFields(r) == ~Truthy(r.text_fields) /\ ~Truthy(r.binary_fields)

\* the case records of the response, once generate_combinations has returned
Returned == IF pc = "done" THEN response.cases ELSE <<>>

\* C1: the reported total_combinations is 3^t * 2^b for the resolved t text and
\* b binary fields, whatever max_cases is (also when the cap is below the total).
C1_TotalIsPowerProduct ==
    pc = "done" =>
        response.total_combinations =
            (3 ^ Len(response.text_fields)) * (2 ^ Len(response.binary_fields))

C1_Witness ==
    /\ pc = "done"
    /\ Len(response.text_fields) = 2
    /\ Len(response.binary_fields) = 1
    /\ req.max_cases < response.total_combinations
    /\ response.total_combinations = 18

\* C2: the number of returned cases (len(cases), returned_count) is
\* min(total_combinations, max_cases), wherever in the loops the cap is reached.
C2_ReturnedCountIsMin ==
    pc = "done" =>
        /\ Len(response.cases) = Min(response.total_combinations, req.max_cases)
        /\ response.returned_count = Len(response.cases)

\* the cap is reached in the middle of an inner loop
C2_Witness ==
    /\ pc = "done"
    /\ req.max_cases < response.total_combinations
    /\ Len(binary_state_products) = 2
    /\ req.max_cases % 2 = 1
    /\ response.returned_count = req.max_cases

\* C3 as stated: an unmatched scenario without explicit fields resolves to empty
\* field lists, every case has an empty combination and category ["Positive"].
C3_UnmatchedGivesEmptyModel ==
    (pc = "done" /\ NoExplicitFields(req)
        /\ detect_fields_for_scenario(req.scenario) = Fields(<<>>, <<>>)) =>
        /\ response.text_fields = <<>>
        /\ response.binary_fields = <<>>
        /\ \A i \in 1..Len(response.cases) :
            /\ response.cases[i].combination = <<>>
            /\ response.cases[i].category = <<"Positive">>

\* C3 amended: an unmatched scenario without explicit fields resolves to the
\* default text field "input" and no binary field, total 3; every case assigns
\* exactly "input", with category ["Positive"] for Valid, ["Negative"] for
\* Invalid and ["Negative", "Validation", "Edge"] for Empty.
C3_UnmatchedGivesDefaultField ==
    (pc = "done" /\ NoExplicitFields(req)
        /\ detect_fields_for_scenario(req.scenario) = Fields(<<>>, <<>>)) =>
        /\ response.text_fields = <<"input">>
        /\ response.binary_fields = <<>>
        /\ response.total_combinations = 3
        /\ \A i \in 1..Len(response.cases) :
            LET c == response.cases[i].combination
            IN /\ Len(c) = 1
               /\ c[1][1] = "input"
               /\ c[1][2] \in TextStateSet
               /\ response.cases[i].category =
                      CASE c[1][2] = "Valid" -> <<"Positive">>
                        [] c[1][2] = "Invalid" -> <<"Negative">>
                        [] c[1][2] = "Empty" -> <<"Negative", "Validation", "Edge">>

C3_Witness ==
    /\ pc = "done"
    /\ req.scenario = "xyzzy operation"
    /\ req.text_fields = None
    /\ req.binary_fields = None
    /\ Len(response.cases) = 3

\* the keys of a combination are the resolved names, each once, text fields
\* first, then binary fields, in declaration order
KeysAreResolvedFields(c) ==
    /\ SetOf(DictKeys(c)) = SetOf(text_fields) \cup SetOf(binary_fields)
    /\ \A i, j \in 1..Len(c) : c[i][1] = c[j][1] => i = j
    /\ DictKeys(c) = Dedup(text_fields \o binary_fields)

\* C4: every emitted combination has exactly the resolved field names as keys
\* (text first, then binary), every text field mapped to a text state and every
\* binary field mapped to a binary state. Fails when a caller-supplied name is
\* both a text and a binary field: the dict keeps the binary state only.
C4_EveryFieldHasLegalState ==
    \A k \in 1..Len(Returned) :
        LET c == Returned[k].combination
        IN /\ KeysAreResolvedFields(c)
           /\ \A f \in SetOf(text_fields) : Lookup(c, f) \in TextStateSet
           /\ \A f \in SetOf(binary_fields) : Lookup(c, f) \in BinaryStateSet

\* What the code does guarantee about the keys and states: the resolved names
\* are the keys, each once, in the order of first occurrence; a name that is a
\* binary field holds a binary state, and every other name a text state.
KeysAndStatesByLastRole ==
    \A k \in 1..Len(Returned) :
        LET c == Returned[k].combination
        IN /\ KeysAreResolvedFields(c)
           /\ \A f \in SetOf(binary_fields) : Lookup(c, f) \in BinaryStateSet
           /\ \A f \in SetOf(text_fields) \ SetOf(binary_fields) :
                  Lookup(c, f) \in TextStateSet

\* digit i (1 is the most significant) of n written with the given radices
RECURSIVE RadixProduct(_, _)
RadixProduct(radices, from) ==
    IF from > Len(radices) THEN 1
    ELSE radices[from] * RadixProduct(radices, from + 1)

Digit(n, radices, i) == (n \div RadixProduct(radices, i + 1)) % radices[i]

FieldRadices ==
    [i \in 1..Len(text_fields) |-> 3] \o [j \in 1..Len(binary_fields) |-> 2]

TextStateOfDigit(d) ==
    CASE d = 0 -> "Valid" [] d = 1 -> "Invalid" [] d = 2 -> "Empty"

BinaryStateOfDigit(d) ==
    CASE d = 0 -> "Checked" [] d = 1 -> "Unchecked"

\* the state that position i of the fields (text, then binary) has in case k
StateAt(k, i) ==
    IF i <= Len(text_fields)
    THEN TextStateOfDigit(Digit(k - 1, FieldRadices, i))
    ELSE BinaryStateOfDigit(Digit(k - 1, FieldRadices, i))

\* C5: the k-th case assigns to every field the state of its digit of k-1
\* written in mixed radix, text fields first (most significant first, Valid=0,
\* Invalid=1, Empty=2), then binary fields (Checked=0, Unchecked=1). Fails when
\* a field name is repeated: the dict of C4 keeps one state per name.
C5_CaseEncodesIndex ==
    \A k \in 1..Len(Returned) :
        LET c == Returned[k].combination
            names == text_fields \o binary_fields
        IN /\ SetOf(DictKeys(c)) = SetOf(names)
           /\ \A i \in 1..Len(names) : Lookup(c, names[i]) = StateAt(k, i)

\* What the code does guarantee about the order: the k-th case assigns to every
\* field name the state of the digit of k-1 at the last position where that
\* name occurs; with pairwise distinct names that is the digit of the field.
CaseEncodesIndexByLastOccurrence ==
    \A k \in 1..Len(Returned) :
        LET c == Returned[k].combination
            names == text_fields \o binary_fields
        IN /\ DictKeys(c) = Dedup(names)
           /\ \A i \in 1..Len(names) :
                  (\A j \in (i + 1)..Len(names) : names[j] # names[i])
                      => Lookup(c, names[i]) = StateAt(k, i)

\* the number a string of decimal digits writes
DigitValue(c) == CHOOSE d \in 0..9 : Chr(DecDigits, d + 1) = c

IsDigit(c) == \E d \in 0..9 : Chr(DecDigits, d + 1) = c

RECURSIVE ParseDec(_)
ParseDec(s) ==
    IF s = "" THEN 0
    ELSE 10 * ParseDec(SubSeq(s, 1, Len(s) - 1)) + DigitValue(Chr(s, Len(s)))

\* C6: the i-th returned case carries sequence number i, written with 4
\* zero-padded digits after the prefix and "-": from 1, no gaps, no repeats,
\* also when max_cases truncates the output.
C6_IdsNumberEmittedCases ==
    \A i \in 1..Len(Returned) :
        LET id == Returned[i].id
            number == SubSeq(id, Len(prefix) + 2, Len(id))
        IN /\ SubSeq(id, 1, Len(prefix) + 1) = prefix \o "-"
           /\ Len(number) = 4
           /\ \A j \in 1..4 : IsDigit(Chr(number, j))
           /\ ParseDec(number) = i

\* a truncated response of 100 cases: the last id ends in 0100
C6_Witness ==
    /\ pc = "done"
    /\ req.max_cases < response.total_combinations
    /\ Len(response.cases) = 100
    /\ response.cases[100].id = "CHECKOUT-0100"

\* C7 as stated: the prefix is the trimmed scenario upper-cased with its spaces
\* removed, cut to 8 characters, or the placeholder when that is empty; the id
\* is prefix, "-", 4-digit number.
C7_PrefixDropsSpaces ==
    pc \in {"inner", "after_inner", "finish", "done"} =>
        LET p == Take(Replace(Upper(Strip(req.scenario)), " ", ""), 8)
        IN /\ prefix = IF p = "" THEN "SCEN" ELSE p
           /\ \A i \in 1..Len(Returned) :
                  /\ Len(Returned[i].id) = Len(prefix) + 5
                  /\ SubSeq(Returned[i].id, 1, Len(prefix) + 1) = prefix \o "-"

\* C7 amended: the prefix is the first 8 characters of the trimmed scenario,
\* each space replaced by "_" and every other character upper-cased, or "SCEN"
\* when the trimmed scenario is empty; the id is prefix, "-", 4-digit number.
C7_PrefixReplacesSpaces ==
    pc \in {"inner", "after_inner", "finish", "done"} =>
        LET u == Strip(req.scenario)
        IN /\ IF u = "" THEN prefix = "SCEN"
              ELSE /\ Len(prefix) = Min(8, Len(u))
                   /\ \A i \in 1..Len(prefix) :
                          Chr(prefix, i) =
                              IF Chr(u, i) = " " THEN "_" ELSE UpperChar(Chr(u, i))
           /\ \A i \in 1..Len(Returned) :
                  /\ Len(Returned[i].id) = Len(prefix) + 5
                  /\ SubSeq(Returned[i].id, 1, Len(prefix) + 1) = prefix \o "-"

\* a scenario with inner spaces, longer than 8 characters
C7_Witness ==
    /\ pc = "done"
    /\ req.scenario = "  Add to cart "
    /\ prefix = "ADD_TO_C"
    /\ Len(response.cases) >= 1
    /\ response.cases[1].id = "ADD_TO_C-0001"

\* C8: scenario "login", no explicit fields, max_cases = 100: text fields
\* username, password, otp; binary fields remember_me, show_password; total 108;
\* exactly 100 cases returned.
C8_LoginExample ==
    (pc = "done" /\ req.scenario = "login" /\ NoExplicitFields(req)
        /\ req.max_cases = 100) =>
        /\ response.text_fields = <<"username", "password", "otp">>
        /\ response.binary_fields = <<"remember_me", "show_password">>
        /\ response.total_combinations = 108
        /\ response.returned_count = 100
        /\ Len(response.cases) = 100

C8_Witness ==
    /\ pc = "done"
    /\ req.scenario = "login"
    /\ req.text_fields = None
    /\ req.binary_fields = None
    /\ req.max_cases = 100
    /\ response.status = 200

CATEGORIES == {"Positive", "Negative", "Validation", "Edge", "Security"}

\* the text states of an assignment: its values among Valid, Invalid, Empty
HasTextState(d) == \E i \in 1..Len(d) : d[i][2] \in TextStateSet

AllTextValid(d) ==
    /\ HasTextState(d)
    /\ \A i \in 1..Len(d) : d[i][2] \in TextStateSet => d[i][2] = "Valid"

WellFormedCategories(cats) ==
    /\ cats # <<>>
    /\ \A i, j \in 1..Len(cats) : cats[i] = cats[j] => i = j
    /\ SetOf(cats) \subseteq CATEGORIES

\* C9: for every scenario and assignment (the empty one and binary-only ones
\* included) the category list is non-empty, duplicate-free and drawn from the
\* five labels; it is exactly ["Positive"] when no rule adds a label, which is
\* when the assignment holds no text state.
C9_CategoriesWellFormed ==
    /\ pc = "applied" =>
           /\ WellFormedCategories(fn_out.categories)
           /\ ~HasTextState(fn_in.combination) => fn_out.categories = <<"Positive">>
    /\ \A k \in 1..Len(Returned) :
           /\ WellFormedCategories(Returned[k].category)
           /\ ~HasTextState(Returned[k].combination)
                  => Returned[k].category = <<"Positive">>

\* the empty assignment
C9_Witness ==
    /\ pc = "applied"
    /\ fn_in.scenario = "login"
    /\ fn_in.combination = <<>>
    /\ fn_out.categories = <<"Positive">>

\* C10: when at least one text field exists and all text fields are Valid, the
\* category list is exactly ["Positive"] and the expected result is the success
\* narrative, whatever the scenario and the binary states.
C10_AllValidIsPositiveSuccess ==
    /\ (pc = "applied" /\ AllTextValid(fn_in.combination)) =>
           /\ fn_out.categories = <<"Positive">>
           /\ fn_out.expected_result = SuccessNarrative(Strip(fn_in.scenario))
    /\ \A k \in 1..Len(Returned) :
           AllTextValid(Returned[k].combination) =>
               /\ Returned[k].category = <<"Positive">>
               /\ Returned[k].expected_result = SuccessNarrative(Strip(req.scenario))

\* "checkout" with its four detected text fields all Valid
C10_Witness ==
    /\ pc = "done"
    /\ req.scenario = "checkout"
    /\ text_fields = <<"shipping_address", "zipcode", "card_number", "cvv">>
    /\ Len(response.cases) >= 2
    /\ AllTextValid(response.cases[2].combination)
    /\ response.cases[2].category = <<"Positive">>

\* the narrative variants of the expected result
Variants == {"success", "validation", "security", "negative", "fallback"}

NarrativeOf(v, s) ==
    CASE v = "success" -> SuccessNarrative(s)
      [] v = "validation" -> ValidationNarrative
      [] v = "security" -> SecurityNarrative
      [] v = "negative" -> NegativeNarrative
      [] v = "fallback" -> FallbackNarrative(s)

\* the variant the precedence of the labels selects for a set of labels
SelectedVariant(labels) ==
    IF "Positive" \in labels /\ "Negative" \notin labels /\ "Validation" \notin labels
    THEN "success"
    ELSE IF "Validation" \in labels \/ "Edge" \in labels THEN "validation"
    ELSE IF "Security" \in labels THEN "security"
    ELSE IF "Negative" \in labels THEN "negative"
    ELSE "fallback"

\* the expected result is the narrative of exactly one variant, the selected one
IsSelectedNarrative(expected_result, s, cats) ==
    {v \in Variants : expected_result = NarrativeOf(v, s)}
        = {SelectedVariant(SetOf(cats))}

\* C11: for every category list _categorize_combination returns, the expected
\* result is exactly one narrative variant, chosen by the precedence success
\* (Positive without Negative and Validation), validation (Validation or Edge),
\* security (Security), generic rejection (Negative), compliant handling; a list
\* with Security and Validation or Edge gets the validation narrative and
\* [Negative, Security] gets the security narrative.
C11_NarrativeFollowsPrecedence ==
    /\ pc = "applied" =>
           LET cats == fn_out.categories
               s == Strip(fn_in.scenario)
           IN /\ IsSelectedNarrative(fn_out.expected_result, s, cats)
              /\ (InList("Security", cats)
                     /\ (InList("Validation", cats) \/ InList("Edge", cats)))
                    => fn_out.expected_result = ValidationNarrative
              /\ cats = <<"Negative", "Security">>
                    => fn_out.expected_result = SecurityNarrative
    /\ \A k \in 1..Len(Returned) :
           IsSelectedNarrative(Returned[k].expected_result, Strip(req.scenario),
                               Returned[k].category)

\* a login assignment with an empty password: Security together with Validation
C11_Witness ==
    /\ pc = "applied"
    /\ fn_in.scenario = "login"
    /\ fn_in.combination = << <<"Password", "Empty">> >>
    /\ fn_out.categories = <<"Negative", "Validation", "Edge", "Security">>
    /\ fn_out.expected_result = ValidationNarrative

\* the list a field of the request stands for: empty when omitted
GivenList(o) == IF o.some THEN o.list ELSE <<>>

\* C12: when the request supplies a non-empty text_fields or binary_fields list,
\* the response reports exactly the supplied lists in the supplied order (no
\* deduplication, no reordering, an omitted list as empty), without detection
\* and without the default field; detection decides only when both lists are
\* absent or empty.
C12_ExplicitFieldsVerbatim ==
    pc = "done" =>
        LET detected == detect_fields_for_scenario(req.scenario)
            explicit == GivenList(req.text_fields) # <<>>
                            \/ GivenList(req.binary_fields) # <<>>
        IN /\ explicit =>
                  /\ response.text_fields = GivenList(req.text_fields)
                  /\ response.binary_fields = GivenList(req.binary_fields)
           /\ (~explicit /\ detected # Fields(<<>>, <<>>)) =>
                  /\ response.text_fields = detected.text
                  /\ response.binary_fields = detected.binary

\* a repeated name, for a scenario that detection would match
C12_Witness ==
    /\ pc = "done"
    /\ req.scenario = "login"
    /\ req.text_fields = Some(<<"x", "x">>)
    /\ req.binary_fields = None
    /\ response.text_fields = <<"x", "x">>
    /\ response.binary_fields = <<>>
    /\ response.total_combinations = 9

\* the scenarios of the security rule
SecurityScenario(scen) ==
    LET s == Lower(Strip(scen))
    IN Contains("login", s) \/ Contains("auth", s)
           \/ Contains("sign in", Replace(s, "-", " "))

SensitiveNames == {"password", "otp", "token"}

\* some field with a sensitive name is Invalid or Empty
SensitiveFieldRejected(d) ==
    \E i \in 1..Len(d) :
        Lower(d[i][1]) \in SensitiveNames /\ d[i][2] \in {"Invalid", "Empty"}

\* at least two text fields are Invalid
TwoFieldsInvalid(d) ==
    \E i, j \in 1..Len(d) : i # j /\ d[i][2] = "Invalid" /\ d[j][2] = "Invalid"

SecurityExpected(scen, d) ==
    SecurityScenario(scen) /\ (SensitiveFieldRejected(d) \/ TwoFieldsInvalid(d))

LoginPasswordEmpty ==
    << <<"username", "Valid">>, <<"password", "Empty">>, <<"otp", "Valid">>,
       <<"remember_me", "Checked">>, <<"show_password", "Unchecked">> >>

\* C13: "Security" is among the categories if and only if the trimmed,
\* lower-cased scenario contains "login", "auth" or (hyphens read as spaces)
\* "sign in", and either a field named password, otp or token (in any case) is
\* Invalid or Empty or at least two text fields are Invalid. For "login" with
\* password Empty the categories hold Negative, Validation, Edge and Security
\* and not Positive.
C13_SecurityRule ==
    /\ pc = "applied" =>
           (InList("Security", fn_out.categories)
               <=> SecurityExpected(fn_in.scenario, fn_in.combination))
    /\ \A k \in 1..Len(Returned) :
           /\ InList("Security", Returned[k].category)
                  <=> SecurityExpected(req.scenario, Returned[k].combination)
           /\ (req.scenario = "login" /\ Returned[k].combination = LoginPasswordEmpty)
                  => /\ {"Negative", "Validation", "Edge", "Security"}
                            \subseteq SetOf(Returned[k].category)
                     /\ ~InList("Positive", Returned[k].category)

\* the login example is the 26th of the 108 combinations
C13_Witness ==
    /\ pc = "done"
    /\ req.scenario = "login"
    /\ Len(response.cases) >= 26
    /\ response.cases[26].combination = LoginPasswordEmpty
    /\ response.cases[26].category = <<"Negative", "Validation", "Edge", "Security">>

HasEmptyText(d) == \E i \in 1..Len(d) : d[i][2] = "Empty"

HasInvalidText(d) == \E i \in 1..Len(d) : d[i][2] = "Invalid"

\* the labels of cats that belong to the set, in the order of cats
Restrict(cats, labels) == SelectSeq(cats, LAMBDA c : c \in labels)

\* the labels an assignment with an Empty or an Invalid text field must carry
NegativeLabelsAsRuled(d, cats) ==
    /\ HasEmptyText(d) =>
           /\ Restrict(cats, {"Negative", "Validation", "Edge"})
                  = <<"Negative", "Validation", "Edge">>
           /\ ~InList("Positive", cats)
    /\ (HasInvalidText(d) /\ ~HasEmptyText(d)) =>
           /\ Restrict(cats, {"Negative"}) = <<"Negative">>
           /\ ~InList("Validation", cats)
           /\ ~InList("Edge", cats)
           /\ ~InList("Positive", cats)

\* C14: if any text field is Empty the categories hold Negative, Validation and
\* Edge, once each and in that order, and not Positive; if some text field is
\* Invalid and none is Empty they hold Negative exactly once and neither
\* Validation nor Edge nor Positive.
C14_EmptyAndInvalidLabels ==
    /\ pc = "applied" => NegativeLabelsAsRuled(fn_in.combination, fn_out.categories)
    /\ \A k \in 1..Len(Returned) :
           NegativeLabelsAsRuled(Returned[k].combination, Returned[k].category)

\* one field Empty and one Invalid: Negative is not added a second time
C14_Witness ==
    /\ pc = "applied"
    /\ fn_in.scenario = "checkout"
    /\ fn_in.combination = << <<"x", "Empty">>, <<"b", "Invalid">> >>
    /\ fn_out.categories = <<"Negative", "Validation", "Edge">>

\* the platforms with an opening of their own, and the surface it names
OwnOpening == {"web", "mobile", "api", "desktop", "automotive"}

Surface(platform) ==
    CASE platform = "web" -> "web browser"
      [] platform = "mobile" -> "mobile application"
      [] platform = "api" -> "API client"
      [] platform = "desktop" -> "desktop application"
      [] platform = "automotive" -> "test vehicle"
      [] OTHER -> "system under test"

\* how the step of a field begins, by the state of the field
StepWording(field, state) ==
    CASE state = "Valid" -> "Enter a valid value into '" \o field \o "'"
      [] state = "Invalid" -> "Enter an invalid or not allowed value into '" \o field \o "'"
      [] state = "Empty" -> "Leave the '" \o field \o "' field empty"
      [] state = "Checked" -> "Ensure the '" \o field \o "' option is enabled/checked"
      [] state = "Unchecked" -> "Ensure the '" \o field \o "' option is disabled/unchecked"

\* the steps of an assignment d for a platform and a scenario
StepsAsRuled(platform, scen, d, steps) ==
    LET n == Len(d)
    IN /\ Len(steps) = n + 5
       /\ Contains(Surface(platform), steps[1])
       /\ \A q \in StepPlatforms :
              (SubSeq(steps, 1, 2) = OpeningSteps(q))
                  <=> (q = platform \/ (q \notin OwnOpening /\ platform \notin OwnOpening))
       /\ StartsWith(steps[3], "Navigate to the part of the system where the '"
                                   \o Strip(scen) \o "' operation is performed")
       /\ \A i \in 1..n : StartsWith(steps[3 + i], StepWording(d[i][1], d[i][2]))
       /\ StartsWith(steps[n + 4], "Trigger the '" \o Strip(scen) \o "' operation")
       /\ StartsWith(steps[n + 5], "Observe the system behaviour")

\* C15: for every platform and every assignment of n entries the steps are
\* n + 5: two opening steps chosen by the platform (web, mobile, api, desktop,
\* automotive each their own; any other value, "generic" included, the generic
\* one), one navigation step, one step per entry in insertion order worded by
\* the state of the entry, one trigger step and one observation step.
C15_StepsFollowAssignment ==
    /\ pc = "steps_built" =>
           StepsAsRuled(fn_in.platform, fn_in.scenario, fn_in.combination,
                        fn_out.steps)
    /\ \A k \in 1..Len(Returned) :
           StepsAsRuled(req.platform, req.scenario, Returned[k].combination,
                        Returned[k].steps)

\* two entries of different states on a platform without an opening of its own
C15_Witness ==
    /\ pc = "steps_built"
    /\ fn_in.platform = "tv"
    /\ fn_in.combination = << <<"b", "Unchecked">>, <<"Password", "Empty">> >>
    /\ Len(fn_out.steps) = 7
    /\ fn_out.steps[1] = "Open the system under test using the appropriate client or interface."
    /\ StartsWith(fn_out.steps[4], "Ensure the 'b' option is disabled/unchecked")
    /\ StartsWith(fn_out.steps[5], "Leave the 'Password' field empty")

\* what a request fixes apart from its cap
WithoutCap(r) ==
    [scenario |-> r.scenario, platform |-> r.platform,
     text_fields |-> r.text_fields, binary_fields |-> r.binary_fields]

\* list(product(pool, repeat=n)) if n > 0 else [()]
ProductOrUnit(pool, n) == IF n > 0 THEN Product(pool, n) ELSE << <<>> >>

\* the number of combinations of the fields of q, a request without its cap
FullTotal(q) ==
    LET f == ResolveFields(q)
    IN Len(ProductOrUnit(TEXT_STATES, Len(f.text)))
           * Len(ProductOrUnit(BINARY_STATES, Len(f.binary)))

\* record k of the enumeration of all combinations of q
FullCase(q, k) ==
    LET f == ResolveFields(q)
        binary_products == ProductOrUnit(BINARY_STATES, Len(f.binary))
        text_states ==
            ProductOrUnit(TEXT_STATES, Len(f.text))[((k - 1) \div Len(binary_products)) + 1]
        binary_states == binary_products[((k - 1) % Len(binary_products)) + 1]
        combination ==
            DictSetZip(DictSetZip(<<>>, f.text, text_states, 1),
                       f.binary, binary_states, 1)
        s == Strip(q.scenario)
        categories == categorize_combination(s, combination)
        steps == build_steps_for_combination(q, combination)
        expected_result == build_expected_result(s, categories, combination)
        id == case_id(make_prefix(s), k)
    IN [id |-> id,
        category |-> categories,
        combination |-> combination,
        steps |-> steps,
        expected_result |-> expected_result,
        markdown |-> build_markdown_for_case(id, s, categories, combination,
                                             steps, expected_result)]

\* C16: truncation yields a prefix. The response to a request with cap m holds
\* the first min(m, total) records of one enumeration that the scenario, the
\* platform and the field lists fix without the cap, with the total of that
\* enumeration; so for m <= m' the cases for m are the first min(m, total)
\* cases for m' (ids, assignments, categories, steps, expected results) and
\* total_combinations is the same.
C16_TruncationIsPrefix ==
    pc = "done" =>
        LET q == WithoutCap(req)
        IN /\ response.total_combinations = FullTotal(q)
           /\ Len(response.cases) = Min(req.max_cases, FullTotal(q))
           /\ \A k \in 1..Len(response.cases) : response.cases[k] = FullCase(q, k)

\* a cap that cuts the enumeration inside an inner loop, behind the first one
C16_Witness ==
    /\ pc = "done"
    /\ req.scenario = "  Add to cart "
    /\ NoExplicitFields(req)
    /\ req.max_cases = 3
    /\ response.total_combinations = 18
    /\ Len(response.cases) = 3
    /\ response.cases[3].id = "ADD_TO_C-0003"
    /\ DictValues(response.cases[3].combination) = <<"Valid", "Invalid", "Checked">>

\* the narratives of the four branches ahead of the final one
EarlierNarratives(s) ==
    {SuccessNarrative(s), ValidationNarrative, SecurityNarrative, NegativeNarrative}

\* the expected result comes from one of the four earlier branches
NotTheFallback(expected_result, s, cats) ==
    /\ expected_result \in EarlierNarratives(s)
    /\ expected_result # FallbackNarrative(s)
    /\ SelectedVariant(SetOf(cats)) \in Variants \ {"fallback"}

\* C17: the final branch of _build_expected_result (compliant handling) is
\* never taken: every category list _categorize_combination returns, for any
\* scenario and assignment and for every case of generate_combinations, is
\* matched by the success, validation, security or generic rejection branch.
C17_FallbackNeverSelected ==
    /\ pc = "applied" =>
           NotTheFallback(fn_out.expected_result, Strip(fn_in.scenario),
                          fn_out.categories)
    /\ \A k \in 1..Len(Returned) :
           NotTheFallback(Returned[k].expected_result, Strip(req.scenario),
                          Returned[k].category)

\* a case that only the last of the four branches matches
C17_Witness ==
    /\ pc = "done"
    /\ req.scenario = "xyzzy operation"
    /\ Len(response.cases) >= 2
    /\ response.cases[2].category = <<"Negative">>
    /\ response.cases[2].expected_result = NegativeNarrative

EcuProfile ==
    Fields(<<"request_id", "checksum", "ecu_id">>,
           <<"is_vehicle_running", "is_ignition_on">>)

VehicleIntegrationProfile ==
    Fields(<<"signal_name", "signal_value", "bus_load">>,
           <<"is_ignition_on", "is_vehicle_moving">>)

DoorWarningProfile ==
    Fields(<<"door_signal", "vehicle_speed", "voltage_profile">>,
           <<"is_ignition_on", "cluster_active">>)

\* the keywords of the profiles ahead of the door-warning profile, "can" and
\* "lin" left out
OtherKeywords ==
    {"login", "authenticate", "logout", "checkout", "payment", "purchase",
     "registration", "signup", "reset password", "forgot password",
     "password_reset", "add to cart", "api", "endpoint", "request", "ecu",
     "firmware", "diagnostic", "hmi", "ui", "user interface", "audio",
     "bluetooth", "bt ", "wifi", "wi-fi", "hotspot", "navigation", "nav ",
     "gnss", "route", "vehicle integration", "ota", "over-the-air",
     "software update", "performance", "latency", "response time", "security",
     "access control", "authorization", "robustness", "power cycle", "fault",
     "stress"}

\* the keywords looked up with the hyphens read as spaces
OtherKeywordsHyphenFree == {"sign in", "sign out", "sign up", "add_to_cart"}

NoOtherKeyword(s) ==
    /\ \A w \in OtherKeywords : ~Contains(w, s)
    /\ \A w \in OtherKeywordsHyphenFree : ~Contains(w, Replace(s, "-", " "))

\* C18: for a normalized scenario that contains "door", "can" and "lin" select
\* neither the ECU profile nor the vehicle-integration profile: either is
\* selected only for a keyword of its own; a scenario with "door warning" and
\* "can" or "lin" and no keyword of another earlier profile resolves to the
\* door-warning profile.
C18_DoorNotCapturedByCanLin ==
    pc = "detected" =>
        LET s == Lower(Strip(fn_in.scenario))
        IN Contains("door", s) =>
               /\ fn_out.fields = EcuProfile =>
                      (Contains("ecu", s) \/ Contains("firmware", s)
                          \/ Contains("diagnostic", s))
               /\ fn_out.fields = VehicleIntegrationProfile =>
                      Contains("vehicle integration", s)
               /\ (Contains("door warning", s)
                      /\ (Contains("can", s) \/ Contains("lin", s))
                      /\ NoOtherKeyword(s))
                     => fn_out.fields = DoorWarningProfile

C18_Witness ==
    /\ pc = "detected"
    /\ fn_in.scenario = "door warning can"
    /\ fn_out.fields = DoorWarningProfile

====
